---- MODULE Spec2Model ----
(***************************************************************************)
(* A model of rom.py (Romaneio Manual): the spreadsheet normalizer         *)
(* (find_header_row, normalize/COLMAP, rename_columns,                     *)
(* load_excel_from_bytes), the OneDrive download with its single fallback, *)
(* the vertical chaining of the PDF sections, and the Streamlit script     *)
(* runs (refresh, manual selection, batch generation).                     *)
(*                                                                         *)
(* Text is a sequence of characters; a character is a one-letter string,   *)
(* or the name of its code point ("U+00E3") when it is not ASCII.          *)
(***************************************************************************)
EXTENDS Integers, Sequences, FiniteSets, TLC

VARIABLES
    remote,         \* the workbook now behind ONEDRIVE_LINK (environment)
    df_cache,       \* st.session_state.df_cache: None or the loaded table
    fetch_error,    \* st.session_state.fetch_error: None or the message
    selected_keys,  \* st.session_state["selected_keys"]
    widget,         \* the multiselect as left by the last run: None when
                    \* that run did not draw it, else its options and value
    run,            \* what the last script run did: button, message, archive
    arg,            \* the argument of the function under test
    ret,            \* its result
    pc              \* position of the function-level specifications

vars == <<remote, df_cache, fetch_error, selected_keys, widget, run, arg, ret, pc>>

None == [t |-> "None"]

(***************************************************************************)
(* Characters and strings                                                  *)
(***************************************************************************)
LowerChars == <<"a","b","c","d","e","f","g","h","i","j","k","l","m",
                "n","o","p","q","r","s","t","u","v","w","x","y","z",
                "U+00E3","U+00E7">>
UpperChars == <<"A","B","C","D","E","F","G","H","I","J","K","L","M",
                "N","O","P","Q","R","S","T","U","V","W","X","Y","Z",
                "U+00C3","U+00C7">>

\* str.upper() on one character
ToUpper(c) ==
    IF \E i \in DOMAIN LowerChars : LowerChars[i] = c
    THEN UpperChars[CHOOSE i \in DOMAIN LowerChars : LowerChars[i] = c]
    ELSE c

\* str.upper()
Upper(s) == [i \in DOMAIN s |-> ToUpper(s[i])]

\* unicodedata.normalize("NFKD", c) for one character
NFKD(c) ==
    CASE c = "U+00E3" -> <<"a", "U+0303">>
      [] c = "U+00C3" -> <<"A", "U+0303">>
      [] c = "U+00E7" -> <<"c", "U+0327">>
      [] c = "U+00C7" -> <<"C", "U+0327">>
      [] c = "U+00A0" -> <<" ">>
      [] OTHER        -> <<c>>

\* unicodedata.combining(c) # 0
combining(c) == c \in {"U+0303", "U+0327"}

\* str.isspace() on one character
IsSpace(c) == c \in {" ", "U+00A0"}

IsDigit(c) == c \in {"0","1","2","3","4","5","6","7","8","9"}

RECURSIVE Concat(_)
\* "".join(parts)
Concat(parts) ==
    IF parts = <<>> THEN <<>> ELSE Head(parts) \o Concat(Tail(parts))

RECURSIVE Join(_, _)
\* sep.join(parts)
Join(parts, sep) ==
    IF parts = <<>> THEN <<>>
    ELSE IF Len(parts) = 1 THEN parts[1]
    ELSE parts[1] \o sep \o Join(Tail(parts), sep)

\* sub in s
Contains(sub, s) ==
    \E i \in 0..(Len(s) - Len(sub)) : SubSeq(s, i + 1, i + Len(sub)) = sub

RECURSIVE LStrip(_)
LStrip(s) ==
    IF s # <<>> /\ IsSpace(Head(s)) THEN LStrip(Tail(s)) ELSE s

RECURSIVE RStrip(_)
RStrip(s) ==
    IF s # <<>> /\ IsSpace(s[Len(s)]) THEN RStrip(SubSeq(s, 1, Len(s) - 1)) ELSE s

\* str.strip()
Strip(s) == LStrip(RStrip(s))

RECURSIVE SplitFrom(_, _)
\* the words of s, cur being the word read so far
SplitFrom(s, cur) ==
    IF s = <<>> THEN (IF cur = <<>> THEN <<>> ELSE <<cur>>)
    ELSE IF IsSpace(Head(s))
         THEN (IF cur = <<>> THEN <<>> ELSE <<cur>>) \o SplitFrom(Tail(s), <<>>)
         ELSE SplitFrom(Tail(s), Append(cur, Head(s)))

\* str.split() with no separator: the maximal runs of non-space characters
Split(s) == SplitFrom(s, <<>>)

RECURSIVE ReplaceChar(_, _, _)
\* str.replace(a, b) for a one-character a
ReplaceChar(s, a, b) ==
    IF s = <<>> THEN <<>>
    ELSE (IF Head(s) = a THEN b ELSE <<Head(s)>>) \o ReplaceChar(Tail(s), a, b)

(***************************************************************************)
(* Cells of a sheet: a text, an integer or float number, or empty (NaN).   *)
(* A number is n / 10^d.                                                   *)
(***************************************************************************)
NaN == [t |-> "nan", s |-> <<>>, n |-> 0, d |-> 0]
Str(s) == [t |-> "str", s |-> s, n |-> 0, d |-> 0]
Num(n, d) == [t |-> "num", s |-> <<>>, n |-> n, d |-> d]

DigitChars == <<"0","1","2","3","4","5","6","7","8","9">>

RECURSIVE NatStr(_)
\* str(n) for a natural number
NatStr(n) ==
    IF n < 10 THEN <<DigitChars[n + 1]>>
    ELSE NatStr(n \div 10) \o <<DigitChars[(n % 10) + 1]>>

RECURSIVE Pow10(_)
Pow10(k) == IF k = 0 THEN 1 ELSE 10 * Pow10(k - 1)

RECURSIVE ZeroPad(_, _)
ZeroPad(s, width) == IF Len(s) >= width THEN s ELSE ZeroPad(<<"0">> \o s, width)

\* str(x) of a cell value: int 10 -> "10", float 1234.5 -> "1234.5",
\* float 10.0 -> "10.0", NaN -> "nan" (numbers here are non-negative)
PyStr(cell) ==
    CASE cell.t = "nan" -> <<"n","a","n">>
      [] cell.t = "str" -> cell.s
      [] cell.t = "num" ->
            IF cell.d = 0 THEN NatStr(cell.n)
            ELSE NatStr(cell.n \div Pow10(cell.d)) \o <<".">>
                 \o ZeroPad(NatStr(cell.n % Pow10(cell.d)), cell.d)

\* pd.notna(x)
notna(cell) == cell.t # "nan"

(***************************************************************************)
(* The column names and literals of the program, as texts                  *)
(***************************************************************************)
DEMANDA == <<"D","E","M","A","N","D","A">>
HORARIO == <<"H","O","R","A","R","I","O">>
ARMADOR == <<"A","R","M","A","D","O","R">>
TRANSPORTADORA == <<"T","R","A","N","S","P","O","R","T","A","D","O","R","A">>
DATA_PROGRAMACAO == <<"D","A","T","A"," ","P","R","O","G","R","A","M","A","C","A","O">>
DATA_PROGRAMACAO_ACC == <<"D","A","T","A"," ","P","R","O","G","R","A","M","A","U+00C7","U+00C3","O">>
ROMANEIO == <<"R","O","M","A","N","E","I","O">>
SKU == <<"S","K","U">>
QTD == <<"Q","T","D">>
M3 == <<"M","3">>
STATUS == <<"S","T","A","T","U","S">>
NOME == <<"N","O","M","E">>
MOTORISTA == <<"M","O","T","O","R","I","S","T","A">>
PLACA == <<"P","L","A","C","A">>
TECADI == <<"T","E","C","A","D","I">>
LISTA == <<"L","I","S","T","A">>
FINALIZADO == <<"F","I","N","A","L","I","Z","A","D","O">>

REQUIRED_FOR_PDF == <<ARMADOR, TECADI, SKU, QTD, LISTA, DEMANDA, TRANSPORTADORA, NOME, PLACA>>

(***************************************************************************)
(* Spreadsheet helpers                                                     *)
(***************************************************************************)
\* the combining marks are left in
normalize_keeping_marks(s) ==
    Upper(Join(Split(Strip(Concat([i \in DOMAIN s |-> NFKD(s[i])]))), <<" ">>))

\* normalize(s): strip the diacritics, collapse the whitespace, upper-case
normalize(s) ==
    LET decomposed == Concat([i \in DOMAIN s |-> NFKD(s[i])])
        stripped   == SelectSeq(decomposed, LAMBDA c : ~combining(c))
        collapsed  == Join(Split(Strip(stripped)), <<" ">>)
    IN  Upper(collapsed)

\* the alias table, as <<key, canonical name>> pairs
COLMAP == <<
    <<DEMANDA, DEMANDA>>, <<HORARIO, HORARIO>>, <<ARMADOR, ARMADOR>>,
    <<TRANSPORTADORA, TRANSPORTADORA>>,
    <<DATA_PROGRAMACAO, DATA_PROGRAMACAO_ACC>>,
    <<DATA_PROGRAMACAO_ACC, DATA_PROGRAMACAO_ACC>>, <<ROMANEIO, ROMANEIO>>,
    <<SKU, SKU>>, <<QTD, QTD>>, <<M3, M3>>, <<STATUS, STATUS>>, <<NOME, NOME>>,
    <<MOTORISTA, NOME>>, <<PLACA, PLACA>>, <<TECADI, TECADI>>, <<LISTA, LISTA>> >>

\* COLMAP.get(k, default)
COLMAP_get(k, default) ==
    IF \E i \in DOMAIN COLMAP : COLMAP[i][1] = k
    THEN COLMAP[CHOOSE i \in DOMAIN COLMAP : COLMAP[i][1] = k][2]
    ELSE default

\* the new name rename_columns gives the column called c
canonical(c) == COLMAP_get(normalize(c), normalize(c))

\* the positions kept by ~columns.duplicated(): the first of each name
FirstOccurrences(names) ==
    SelectSeq([i \in DOMAIN names |-> i],
              LAMBDA i : \A j \in 1..(i - 1) : names[j] # names[i])

\* the columns `keep` (positions) of a table, in that order
TakeColumns(df, keep) ==
    [df EXCEPT !.columns = [k \in DOMAIN keep |-> df.columns[keep[k]]],
               !.rows = [r \in DOMAIN df.rows |->
                            [k \in DOMAIN keep |-> df.rows[r][keep[k]]]]]

\* df.rename(columns={c: COLMAP.get(normalize(c), normalize(c)) ...})
rename(df) ==
    [df EXCEPT !.columns = [i \in DOMAIN df.columns |-> canonical(df.columns[i])]]

\* df.loc[:, ~df.columns.duplicated()]
drop_duplicated(df) == TakeColumns(df, FirstOccurrences(df.columns))

\* rename_columns(df)
rename_columns(df) == drop_duplicated(rename(df))

ScanRows == 20

\* one marker is enough
HasMarkers_either(joined) ==
    Contains(DEMANDA, Upper(joined)) \/ Contains(ARMADOR, Upper(joined))

\* "DEMANDA" in joined.upper() and "ARMADOR" in joined.upper()
HasMarkers(joined) ==
    Contains(DEMANDA, Upper(joined)) /\ Contains(ARMADOR, Upper(joined))

\* the test of find_header_row on one raw row
IsHeaderRow(row) == HasMarkers(Join([i \in DOMAIN row |-> PyStr(row[i])], <<" ">>))

RECURSIVE find_header_from(_, _)
\* the loop of find_header_row from index i (0-based) on
find_header_from(df_raw, i) ==
    IF i >= (IF ScanRows < Len(df_raw) THEN ScanRows ELSE Len(df_raw)) THEN 0
    ELSE IF IsHeaderRow(df_raw[i + 1]) THEN i
    ELSE find_header_from(df_raw, i + 1)

\* find_header_row(df_raw): df_raw is the sequence of the raw rows
find_header_row(df_raw) == find_header_from(df_raw, 0)

(***************************************************************************)
(* pd.to_numeric(text, errors="coerce") on one text: the number the text   *)
(* spells as digits with at most one "." and at least one digit, NaN for   *)
(* anything else (and for "nan")                                           *)
(***************************************************************************)
RECURSIVE DigitsValue(_)
\* the natural number a sequence of digits spells (0 for none)
DigitsValue(s) ==
    IF s = <<>> THEN 0
    ELSE 10 * DigitsValue(SubSeq(s, 1, Len(s) - 1))
         + ((CHOOSE k \in DOMAIN DigitChars : DigitChars[k] = s[Len(s)]) - 1)

to_numeric(s) ==
    LET dots    == SelectSeq(s, LAMBDA c : c = ".")
        digits  == SelectSeq(s, LAMBDA c : IsDigit(c))
        point   == IF dots = <<>> THEN Len(s) + 1
                   ELSE CHOOSE i \in DOMAIN s : s[i] = "."
    IN  IF /\ \A i \in DOMAIN s : IsDigit(s[i]) \/ s[i] = "."
           /\ Len(dots) <= 1
           /\ digits # <<>>
        THEN Num(DigitsValue(digits), IF dots = <<>> THEN 0 ELSE Len(s) - point)
        ELSE NaN

\* the two lines that coerce one QTD cell: str, drop ".", "," to ".", parse
coerce_qtd(cell) ==
    to_numeric(ReplaceChar(ReplaceChar(PyStr(cell), ".", <<>>), ",", <<".">>))

\* the status upper-cased but not trimmed
normalize_status_untrimmed(cell) == Str(Upper(PyStr(cell)))

\* the line that normalizes one STATUS cell: str, strip, upper
normalize_status(cell) == Str(Upper(Strip(PyStr(cell))))

\* the position of the column called name (0 when there is none)
ColumnIndex(df, name) ==
    IF \E i \in DOMAIN df.columns : df.columns[i] = name
    THEN CHOOSE i \in DOMAIN df.columns :
            /\ df.columns[i] = name
            /\ \A j \in 1..(i - 1) : df.columns[j] # name
    ELSE 0

\* name in df.columns
HasColumn(df, name) == ColumnIndex(df, name) # 0

\* the rows with f applied to the cell at position c
MapCells(rows, c, f(_)) == [r \in DOMAIN rows |-> [rows[r] EXCEPT ![c] = f(@)]]

\* df[name] = df[name].map(f), when the column exists
MapColumn(df, name, f(_)) ==
    IF ~HasColumn(df, name) THEN df
    ELSE [df EXCEPT !.rows = MapCells(@, ColumnIndex(df, name), f)]

MaxColumns == 15

\* the table cut out of the raw rows below header_row: the header row's
\* texts as column names, the first 15 columns
cut_table(df_raw, header_row) ==
    LET width == IF Len(df_raw[header_row + 1]) < MaxColumns
                 THEN Len(df_raw[header_row + 1]) ELSE MaxColumns
    IN  [t |-> "df",
         columns |-> [i \in 1..width |-> PyStr(df_raw[header_row + 1][i])],
         rows |-> [r \in 1..(Len(df_raw) - header_row - 1) |->
                        SubSeq(df_raw[header_row + 1 + r], 1, width)]]

\* df.dropna(how="all")
dropna_all(df) ==
    [df EXCEPT !.rows =
        SelectSeq(@, LAMBDA row : \E i \in DOMAIN row : notna(row[i]))]

\* load_excel_from_bytes(xls_bytes): the table, or the exception it raises.
\* xls_bytes.readable is whether the workbook opens and holds SHEET_NAME,
\* xls_bytes.sheet the raw rows of that sheet (read with header=None);
\* an empty sheet has no row 0 to take the headers from.
load_excel_from_bytes(xls_bytes) ==
    IF ~xls_bytes.readable \/ xls_bytes.sheet = <<>>
    THEN [t |-> "raise", columns |-> <<>>, rows |-> <<>>]
    ELSE MapColumn(
            MapColumn(
                rename_columns(
                    dropna_all(cut_table(xls_bytes.sheet,
                                         find_header_row(xls_bytes.sheet)))),
                QTD, coerce_qtd),
            STATUS, normalize_status)

(***************************************************************************)
(* Function-level specifications: `arg` is drawn from a bounded set of     *)
(* inputs, one action applies the function and leaves the result in `ret`. *)
(***************************************************************************)
AppOff ==
    /\ remote = None /\ df_cache = None /\ fetch_error = None
    /\ selected_keys = {} /\ widget = None /\ run = None

AppVars == <<remote, df_cache, fetch_error, selected_keys, widget, run>>

Result(v) == [t |-> "result", v |-> v]

\* ---- find_header_row ----------------------------------------------------
MaxGridRows == 21

\* raw rows that are no header: empty, a title, one marker only, and the
\* two markers cut across cells
FillerRows == {
    <<NaN, NaN>>,
    <<Str(<<"D","e","m","a","n","d","a","s">>), Num(7, 0)>>,
    <<Str(<<"D","E","M","A","N">>), Str(<<"D","A"," ","A","R","M","A","D","O","R">>)>> }

\* raw rows that hold both markers: in two cells in mixed case, in one cell
MarkerRows == <<
    <<Str(<<"D","e","m","a","n","d","a">>), Str(<<"a","r","m","a","d","o","r">>)>>,
    <<NaN, Str(<<"A","R","M","A","D","O","R","/","D","E","M","A","N","D","A">>)>> >>

\* the grids of n rows of one filler, with marker rows at p and q (0: none)
HeaderGrids ==
    { [i \in 1..n |-> IF i = p THEN MarkerRows[1]
                      ELSE IF i = q THEN MarkerRows[2] ELSE f] :
        <<n, p, q, f>> \in { x \in (0..MaxGridRows) \X (0..MaxGridRows)
                                   \X (0..MaxGridRows) \X FillerRows :
                              x[2] <= x[1] /\ x[3] <= x[1] } }

HeaderInit == AppOff /\ pc = "call" /\ ret = None /\ arg \in HeaderGrids

CallFindHeaderRow ==
    /\ pc = "call"
    /\ ret' = Result(find_header_row(arg))
    /\ pc' = "done"
    /\ UNCHANGED <<arg, AppVars>>

HeaderNext == CallFindHeaderRow

SpecHeader == HeaderInit /\ [][HeaderNext]_vars

\* the upper-cased, space-joined text of a raw row holds both marker words
MentionsBoth(row) ==
    LET text == Upper(Join([i \in DOMAIN row |-> PyStr(row[i])], <<" ">>))
    IN  Contains(DEMANDA, text) /\ Contains(ARMADOR, text)

\* C5: find_header_row returns the smallest index k < min(20, number of rows)
\* whose row mentions both DEMANDA and ARMADOR (upper-cased), and 0 when no
\* row among the first 20 does (a short or empty grid included).
C5_HeaderDetection ==
    pc = "done" =>
        LET limit == IF Len(arg) < 20 THEN Len(arg) ELSE 20
            hits  == { k \in 0..(limit - 1) : MentionsBoth(arg[k + 1]) }
        IN  ret.v = IF hits = {} THEN 0
                    ELSE CHOOSE k \in hits : \A j \in hits : k <= j

\* the header found is the last row of the scan window of a longer grid
C5_Witness ==
    /\ pc = "done" /\ Len(arg) > 20 /\ ret.v = 19
    /\ MentionsBoth(arg[20]) /\ ~MentionsBoth(arg[1])

\* ---- load_excel_from_bytes on the quantity column -----------------------
MaxQtdLen == 4

QtdAlphabet == {"1", "2", ".", ",", "a"}

\* the cells a QTD column can hold: texts, integer and float numbers, empty
QtdCells ==
    { Str(s) : s \in UNION { [1..n -> QtdAlphabet] : n \in 1..MaxQtdLen } }
    \cup { Num(10, 0), Num(0, 0), Num(12345, 1), Num(5, 1), Num(1005, 2), NaN }

QtdHeader == <<Str(<<"D","e","m","a","n","d","a">>), Str(<<"A","r","m","a","d","o","r">>),
               Str(<<"Q","t","d">>)>>

QtdRow(cell) == <<Str(<<"7">>), Str(<<"X">>), cell>>

\* a sheet of a header and one or two data rows; the second row's quantity
\* is unparsable
QtdWorkbooks ==
    { [readable |-> TRUE, sheet |-> <<QtdHeader, QtdRow(c)>>] : c \in QtdCells }
    \cup { [readable |-> TRUE,
            sheet |-> <<QtdHeader, QtdRow(Str(<<"a","b","c">>)), QtdRow(c)>>] :
            c \in QtdCells }

QtdInit == AppOff /\ pc = "call" /\ ret = None /\ arg \in QtdWorkbooks

CallLoadExcel ==
    /\ pc = "call"
    /\ ret' = Result(load_excel_from_bytes(arg))
    /\ pc' = "done"
    /\ UNCHANGED <<arg, AppVars>>

QtdNext == CallLoadExcel

SpecQtd == QtdInit /\ [][QtdNext]_vars

\* two quantities are the same number, or both null
SameNumber(a, b) ==
    \/ a.t = "nan" /\ b.t = "nan"
    \/ /\ a.t = "num" /\ b.t = "num"
       /\ a.n * Pow10(b.d) = b.n * Pow10(a.d)

\* the number a source cell denotes with "." grouping thousands and ","
\* the decimal separator: a number cell denotes itself; a text denotes a
\* number when it is digits and "." (the integer part), then at most one ","
\* followed by digits only, with at least one digit in all; else null
Denoted(cell) ==
    IF cell.t # "str" THEN cell
    ELSE
    LET s      == cell.s
        commas == SelectSeq(s, LAMBDA c : c = ",")
        comma  == IF commas = <<>> THEN Len(s) + 1
                  ELSE CHOOSE i \in DOMAIN s : s[i] = ","
        int    == SubSeq(s, 1, comma - 1)
        frac   == SubSeq(s, comma + 1, Len(s))
        digits == SelectSeq(int, LAMBDA c : IsDigit(c)) \o frac
    IN  IF /\ Len(commas) <= 1
           /\ \A i \in DOMAIN int : IsDigit(int[i]) \/ int[i] = "."
           /\ \A i \in DOMAIN frac : IsDigit(frac[i])
           /\ digits # <<>>
        THEN Num(DigitsValue(digits), Len(frac))
        ELSE NaN

\* C7: after load_excel_from_bytes every data row is kept and its QTD is the
\* number its source cell denotes ("." thousands, "," decimal), null when the
\* cell denotes none; the load does not fail on an unparsable cell.
C7_QuantityCoercion ==
    pc = "done" =>
        /\ ret.v.t = "df"
        /\ Len(ret.v.rows) = Len(arg.sheet) - 1
        /\ \A r \in DOMAIN ret.v.rows :
              SameNumber(ret.v.rows[r][3], Denoted(arg.sheet[r + 1][3]))

\* ---- rename_columns ------------------------------------------------------
MaxEdits == 2

\* header spellings to start from: two aliases of one field, the spelling
\* with diacritics of another, an unmapped header
BaseHeaders == {
    <<"M","o","t","o","r","i","s","t","a">>,
    <<"N","o","m","e">>,
    <<"D","a","t","a"," ","P","r","o","g","r","a","m","a","U+00E7","U+00E3","o">>,
    <<"O","b","s"," ","c","a","r","g","a">> }

\* s with the letter at i in the other case
ToggleCase(s, i) ==
    [s EXCEPT ![i] =
        IF \E k \in DOMAIN LowerChars : LowerChars[k] = @
        THEN UpperChars[CHOOSE k \in DOMAIN LowerChars : LowerChars[k] = @]
        ELSE IF \E k \in DOMAIN UpperChars : UpperChars[k] = @
        THEN LowerChars[CHOOSE k \in DOMAIN UpperChars : UpperChars[k] = @]
        ELSE @]

\* s with the diacritic of the letter at i added or removed
ToggleDiacritic(s, i) ==
    [s EXCEPT ![i] =
        CASE @ = "a" -> "U+00E3" [] @ = "U+00E3" -> "a"
          [] @ = "A" -> "U+00C3" [] @ = "U+00C3" -> "A"
          [] @ = "c" -> "U+00E7" [] @ = "U+00E7" -> "c"
          [] @ = "C" -> "U+00C7" [] @ = "U+00C7" -> "C"
          [] OTHER -> @]

\* s with a space put before position i, where that only lengthens the
\* leading, trailing or an inner run of whitespace
PadSpace(s, i) ==
    IF i = 1 \/ i = Len(s) + 1 \/ IsSpace(s[i]) \/ IsSpace(s[i - 1])
    THEN SubSeq(s, 1, i - 1) \o <<" ">> \o SubSeq(s, i, Len(s))
    ELSE s

\* s with the space at i turned into a no-break space
ToggleNbsp(s, i) ==
    [s EXCEPT ![i] = CASE @ = " " -> "U+00A0" [] @ = "U+00A0" -> " " [] OTHER -> @]

\* the spellings one edit away from s that differ from it only in letter
\* case, diacritics or leading/trailing/repeated whitespace
Respellings(s) ==
    ({ ToggleCase(s, i) : i \in DOMAIN s }
     \cup { ToggleDiacritic(s, i) : i \in DOMAIN s }
     \cup { ToggleNbsp(s, i) : i \in DOMAIN s }
     \cup { PadSpace(s, i) : i \in 1..(Len(s) + 1) }) \ {s}

\* a table of three columns and one row whose cells name their source column
ColsTable(h1, h2, h3) ==
    [t |-> "df", columns |-> <<h1, h2, h3>>,
     rows |-> << <<Num(1, 0), Num(2, 0), Num(3, 0)>> >>]

ColsInit ==
    /\ AppOff /\ pc = "call" /\ ret = None
    /\ \E h1 \in BaseHeaders, h2 \in BaseHeaders :
          arg = [base  |-> ColsTable(h1, h2, NOME),
                 df    |-> ColsTable(h1, h2, NOME),
                 edits |-> 0]

\* the sheet's author spells the second header differently
Respell ==
    /\ pc = "call"
    /\ arg.edits < MaxEdits
    /\ \E s \in Respellings(arg.df.columns[2]) :
          arg' = [arg EXCEPT !.df.columns[2] = s, !.edits = @ + 1]
    /\ UNCHANGED <<ret, pc, AppVars>>

CallRenameColumns ==
    /\ pc = "call"
    /\ ret' = [t |-> "result", once |-> rename_columns(arg.df), twice |-> None]
    /\ pc' = "renamed"
    /\ UNCHANGED <<arg, AppVars>>

CallRenameColumnsAgain ==
    /\ pc = "renamed"
    /\ ret' = [ret EXCEPT !.twice = rename_columns(ret.once)]
    /\ pc' = "again"
    /\ UNCHANGED <<arg, AppVars>>

ColsNext == Respell \/ CallRenameColumns \/ CallRenameColumnsAgain

SpecCols == ColsInit /\ [][ColsNext]_vars

\* C8: header spellings that differ only in letter case, diacritics or
\* leading/trailing/repeated whitespace get the same canonical column name;
\* renaming a renamed table changes nothing; of the source columns that get
\* the same canonical name only the leftmost is kept.
C8_ColumnIdentity ==
    pc \in {"renamed", "again"} =>
        LET names == [i \in 1..3 |-> canonical(arg.df.columns[i])]
            firsts == { i \in 1..3 : \A j \in 1..(i - 1) : names[j] # names[i] }
        IN  /\ names[2] = canonical(arg.base.columns[2])
            /\ Len(ret.once.columns) = Cardinality(firsts)
            /\ \A k \in DOMAIN ret.once.columns :
                  \E i \in firsts :
                     /\ ret.once.columns[k] = names[i]
                     /\ ret.once.rows[1][k] = arg.df.rows[1][i]
            /\ \A k, m \in DOMAIN ret.once.columns :
                  ret.once.columns[k] = ret.once.columns[m] => k = m
            /\ pc = "again" => ret.twice = ret.once

\* a respelt alias (case, diacritic or whitespace changed) of the first
\* column's field was renamed, merged into the first column, and the renamed
\* table renamed again
C8_Witness ==
    /\ pc = "again" /\ arg.edits = MaxEdits
    /\ arg.df.columns[2] # arg.base.columns[2]
    /\ arg.df.columns[1] # arg.df.columns[2]
    /\ ret.once.columns = <<NOME>>
    /\ ret.once.rows[1] = <<Num(1, 0)>>

(***************************************************************************)
(* OneDrive / SharePoint download                                          *)
(***************************************************************************)
MinUsefulLength == 1000

\* a reply of requests.get: an exception raised by the transport, or a
\* response with its ok flag and its content (length and what it holds)
Raised(why) == [t |-> "raised", why |-> why, ok |-> FALSE, content |-> None]
Response(ok, content) == [t |-> "response", why |-> "", ok |-> ok, content |-> content]
Bytes(len, readable, sheet) == [len |-> len, readable |-> readable, sheet |-> sheet]

\* 1000 bytes are enough
usable_from_1000(r) == r.ok /\ r.content.len # 0 /\ r.content.len >= MinUsefulLength

\* r.ok and r.content and len(r.content) > 1000
usable(r) == r.ok /\ r.content.len # 0 /\ r.content.len > MinUsefulLength

\* the two URLs built from the shared link
url1(shared_url) == [path |-> "/_layouts/15/download.aspx", SourceUrl |-> shared_url.link,
                     sep |-> "?", download |-> ""]
url2(shared_url) == [path |-> shared_url.link, SourceUrl |-> "",
                     sep |-> IF shared_url.query THEN "&" ELSE "?", download |-> "1"]

\* onedrive_direct_download(shared_url), reply1 and reply2 being what the
\* first and the second requests.get answer: the requests made, in order,
\* and the bytes returned or the exception raised
onedrive_direct_download(shared_url, reply1, reply2) ==
    IF reply1.t = "raised"
    THEN [requests |-> <<url1(shared_url)>>, raised |-> TRUE,
          error |-> reply1.why, content |-> None]
    ELSE IF usable(reply1)
    THEN [requests |-> <<url1(shared_url)>>, raised |-> FALSE,
          error |-> "", content |-> reply1.content]
    ELSE IF reply2.t = "raised"
    THEN [requests |-> <<url1(shared_url), url2(shared_url)>>, raised |-> TRUE,
          error |-> reply2.why, content |-> None]
    ELSE IF usable(reply2)
    THEN [requests |-> <<url1(shared_url), url2(shared_url)>>, raised |-> FALSE,
          error |-> "", content |-> reply2.content]
    ELSE [requests |-> <<url1(shared_url), url2(shared_url)>>, raised |-> TRUE,
          error |-> "Nao foi possivel baixar a planilha", content |-> None]

\* ---- onedrive_direct_download -------------------------------------------
MaxLengthStep == 2

\* content lengths around the threshold
Lengths == {0, 1} \cup { MinUsefulLength + k - 1 : k \in 0..MaxLengthStep }

Replies ==
    { Raised("Timeout"), Raised("ConnectionError") }
    \cup { Response(ok, Bytes(len, FALSE, <<>>)) : ok \in BOOLEAN, len \in Lengths }

SharedUrls == { [link |-> "https://host/:x:/g/file", query |-> FALSE],
                [link |-> "https://host/:x:/g/file?e=abc", query |-> TRUE] }

DownloadInit ==
    /\ AppOff /\ pc = "call" /\ ret = None
    /\ \E u \in SharedUrls, r1 \in Replies, r2 \in Replies :
          arg = [shared_url |-> u, reply1 |-> r1, reply2 |-> r2]

CallDownload ==
    /\ pc = "call"
    /\ ret' = onedrive_direct_download(arg.shared_url, arg.reply1, arg.reply2)
    /\ pc' = "done"
    /\ UNCHANGED <<arg, AppVars>>

DownloadNext == CallDownload

SpecDownload == DownloadInit /\ [][DownloadNext]_vars

\* a response the claim calls usable: ok, not empty, more than 1000 bytes
Usable1000(r) == r.t = "response" /\ r.ok /\ r.content.len > 1000

\* C6: a call makes at most two requests, the primary one first; the
\* fallback is requested exactly when the primary response is not usable
\* (not ok, empty, or 1000 bytes or fewer); the call returns the bytes of
\* the first usable response and raises when both responses are unusable.
C6_BoundedFallback ==
    pc = "done" =>
        /\ Len(ret.requests) \in {1, 2}
        /\ ret.requests[1] = url1(arg.shared_url)
        /\ Len(ret.requests) = 2 =>
              /\ ret.requests[2] = url2(arg.shared_url)
              /\ arg.reply1.t = "response" /\ ~Usable1000(arg.reply1)
        /\ (arg.reply1.t = "response" /\ ~Usable1000(arg.reply1))
              => Len(ret.requests) = 2
        /\ Usable1000(arg.reply1) =>
              ~ret.raised /\ ret.content = arg.reply1.content /\ Len(ret.requests) = 1
        /\ (arg.reply1.t = "response" /\ ~Usable1000(arg.reply1) /\ Usable1000(arg.reply2))
              => ~ret.raised /\ ret.content = arg.reply2.content
        /\ (arg.reply1.t = "response" /\ ~Usable1000(arg.reply1)
            /\ arg.reply2.t = "response" /\ ~Usable1000(arg.reply2))
              => ret.raised

\* the primary response was ok but exactly 1000 bytes, the fallback was
\* requested and was unusable too, and the call raised after two requests
C6_Witness ==
    /\ pc = "done" /\ ret.raised /\ Len(ret.requests) = 2
    /\ arg.reply1.t = "response" /\ arg.reply1.ok /\ arg.reply1.content.len = 1000
    /\ arg.reply2.t = "response" /\ ~arg.reply2.ok

(***************************************************************************)
(* PDF of one row (the values drawn; the geometry is further down)         *)
(***************************************************************************)
\* row[col] of row r of a table (the column exists)
Cell(df, r, col) == df.rows[r][ColumnIndex(df, col)]

\* str_or_default(row, col, default)
str_or_default(df, r, col, default) ==
    IF HasColumn(df, col) /\ notna(Cell(df, r, col))
    THEN Strip(PyStr(Cell(df, r, col)))
    ELSE default

\* format_qtd(val) for the text of a non-negative decimal number, and for a
\* text float() refuses
format_qtd(val) ==
    LET f == to_numeric(val)
    IN  IF f.t = "nan" THEN val
        ELSE IF f.n % Pow10(f.d) = 0 THEN NatStr(f.n \div Pow10(f.d))
        ELSE PyStr(f)

\* Paragraph(lista_texto, ...) raises on markup it cannot parse: here, a text
\* that opens a tag it never closes
ParagraphRaises(text) ==
    \E i \in DOMAIN text :
        text[i] = "<" /\ \A j \in (i + 1)..Len(text) : text[j] # ">"

\* the info dictionary of gerar_pdf_row (DATA, CONTEUDO and CLIENTE, which
\* do not come from the row, are left to the drawing)
info_of(df, r) ==
    [TRANSPORTADORA |-> str_or_default(df, r, TRANSPORTADORA, <<>>),
     MOTORISTA      |-> str_or_default(df, r, NOME, <<>>),
     PLACA          |-> str_or_default(df, r, PLACA, <<>>)]

\* the prod dictionary of gerar_pdf_row
prod_of(df, r) ==
    [CNTR_ORIGEM |-> str_or_default(df, r, ARMADOR, <<>>),
     CNTR_TECADI |-> str_or_default(df, r, TECADI, <<>>),
     SKU         |-> str_or_default(df, r, SKU, <<>>),
     QTD         |-> format_qtd(str_or_default(df, r, QTD, <<>>)),
     LISTA       |-> str_or_default(df, r, LISTA, <<>>)]

RECURSIVE ReplacePair(_, _, _, _)
\* str.replace(<<a, b>>, to) for a two-character pattern
ReplacePair(s, a, b, to) ==
    IF Len(s) < 2 THEN s
    ELSE IF s[1] = a /\ s[2] = b THEN to \o ReplacePair(SubSeq(s, 3, Len(s)), a, b, to)
    ELSE <<s[1]>> \o ReplacePair(Tail(s), a, b, to)

\* str(LISTA).replace(" ;", ";").replace("  ", " ")
lista_texto(lista) == ReplacePair(ReplacePair(lista, " ", ";", <<";">>), " ", " ", <<" ">>)

\* gerar_pdf_row(row, data_cabecalho): the values on the page, or the
\* exception raised while drawing it
gerar_pdf_row(df, r) ==
    [raised |-> ParagraphRaises(lista_texto(prod_of(df, r).LISTA)),
     info |-> info_of(df, r), prod |-> prod_of(df, r)]

(***************************************************************************)
(* The script: one run per user interaction                                *)
(***************************************************************************)
\* the rows (positions) with STATUS upper-cased equal to "FINALIZADO"
finalizados(df) ==
    SelectSeq([r \in DOMAIN df.rows |-> r],
              LAMBDA r : Upper(PyStr(Cell(df, r, STATUS))) = FINALIZADO)

\* re.search(r"(\d+)", s): the first run of digits of s, or s when it has none
first_digits(s) ==
    IF \A i \in DOMAIN s : ~IsDigit(s[i]) THEN s
    ELSE LET a == CHOOSE i \in DOMAIN s :
                    IsDigit(s[i]) /\ \A j \in 1..(i - 1) : ~IsDigit(s[j])
             b == CHOOSE i \in a..Len(s) :
                    /\ \A j \in a..i : IsDigit(s[j])
                    /\ i = Len(s) \/ ~IsDigit(s[i + 1])
         IN  SubSeq(s, a, b)

\* str(row.get(col, ""))
row_get(df, r, col) == IF HasColumn(df, col) THEN PyStr(Cell(df, r, col)) ELSE <<>>

\* _make_key(row)
make_key(df, r) ==
    first_digits(row_get(df, r, DEMANDA)) \o <<"|">> \o row_get(df, r, ARMADOR)

\* the label the multiselect shows for row r
label(df, r) ==
    Join(<<row_get(df, r, DEMANDA), row_get(df, r, ARMADOR),
           row_get(df, r, TRANSPORTADORA), row_get(df, r, NOME),
           row_get(df, r, PLACA), row_get(df, r, LISTA)>>, <<" ", "-", " ">>)

\* the labels dictionary built from the FINALIZADO rows `fin` and their
\* keys: each key with the label of the last row that has it
labels_of(df, fin, keys) ==
    { <<keys[k],
        label(df, fin[CHOOSE m \in DOMAIN fin :
                        /\ keys[m] = keys[k]
                        /\ \A n \in (m + 1)..Len(fin) : keys[n] # keys[k]])>> :
      k \in DOMAIN fin }

\* the keys of the rows `rs`
keys_of(df, rs) == [k \in DOMAIN rs |-> make_key(df, rs[k])]

\* the labels dictionary of the cached table
labels(df) == labels_of(df, finalizados(df), keys_of(df, finalizados(df)))

\* the options of the multiselect: list(labels.keys())
options(df) == { kl[1] : kl \in labels(df) }

\* the archive entry of one pass of the loop on row i: the PDF under its
\* file name, or ERRO_<index>.txt when drawing it raised
entry(df, i, pdf) ==
    IF pdf.raised
    THEN [name |-> <<"E","R","R","O","_">> \o NatStr(i - 1) \o <<".","t","x","t">>,
          pdf |-> FALSE, row |-> i]
    ELSE [name |-> first_digits(str_or_default(df, i, DEMANDA, <<>>)) \o <<".">>
                   \o str_or_default(df, i, ARMADOR, <<>>) \o <<".","p","d","f">>,
          pdf |-> TRUE, row |-> i]

RECURSIVE batch_loop_one_try(_, _, _, _, _)
\* the loop with the try around it instead of inside it: the first failure
\* writes its marker and ends the batch
batch_loop_one_try(df, df_ok, k, zf, calls) ==
    IF k > Len(df_ok) THEN [zip |-> zf, calls |-> calls]
    ELSE IF gerar_pdf_row(df, df_ok[k]).raised
    THEN [zip |-> Append(zf, entry(df, df_ok[k], gerar_pdf_row(df, df_ok[k]))),
          calls |-> Append(calls, df_ok[k])]
    ELSE batch_loop_one_try(df, df_ok, k + 1,
                    Append(zf, entry(df, df_ok[k], gerar_pdf_row(df, df_ok[k]))),
                    Append(calls, df_ok[k]))

\* the loop of bt_gerar over df_ok from position k on: zf is the archive so
\* far, calls the rows gerar_pdf_row was called with
RECURSIVE batch_loop(_, _, _, _, _)
batch_loop(df, df_ok, k, zf, calls) ==
    IF k > Len(df_ok) THEN [zip |-> zf, calls |-> calls]
    ELSE batch_loop(df, df_ok, k + 1,
                    Append(zf, entry(df, df_ok[k], gerar_pdf_row(df, df_ok[k]))),
                    Append(calls, df_ok[k]))

\* the rows bt_gerar keeps: FINALIZADO, and of a selected key when any is
df_ok_rows(df, selected) ==
    IF selected = {} THEN finalizados(df)
    ELSE SelectSeq(finalizados(df), LAMBDA r : make_key(df, r) \in selected)

\* the bt_gerar branch once df_ok is worked out
gerar_rows(df, df_ok) ==
    IF \E i \in DOMAIN REQUIRED_FOR_PDF : ~HasColumn(df, REQUIRED_FOR_PDF[i])
    THEN [shown |-> "Faltam colunas obrigatorias", zip |-> <<>>, calls |-> <<>>]
    ELSE IF df_ok = <<>>
    THEN [shown |-> "Nenhuma linha com STATUS = FINALIZADO", zip |-> <<>>,
          calls |-> <<>>]
    ELSE [shown |-> "Baixar ZIP com PDFs"] @@ batch_loop(df, df_ok, 1, <<>>, <<>>)

\* the bt_gerar branch on a cached table: what it shows and the archive
gerar(df, selected) == gerar_rows(df, df_ok_rows(df, selected))

\* ---- the sheets behind the link -----------------------------------------
MaxRows == 2

TitleRow == <<Str(<<"R","o","m","a","n","e","i","o","s">>), NaN, NaN, NaN, NaN, NaN, NaN, NaN, NaN, NaN>>

\* the header row as the sheet's author spells it; MOTORISTA is an alias
HeaderRow == <<Str(<<"D","e","m","a","n","d","a">>), Str(<<"A","r","m","a","d","o","r">>), Str(<<"T","r","a","n","s","p","o","r","t","a","d","o","r","a">>), Str(<<"S","K","U">>), Str(<<"Q","t","d">>), Str(<<"S","t","a","t","u","s">>), Str(<<"M","o","t","o","r","i","s","t","a">>), Str(<<"T","e","c","a","d","i">>), Str(<<"L","i","s","t","a">>), Str(<<"P","l","a","c","a">>)>>

\* data rows: DEMANDA, ARMADOR, TRANSPORTADORA, SKU, QTD, STATUS, MOTORISTA,
\* TECADI, LISTA, PLACA
DataRow(demanda, armador, status, lista, placa) ==
    <<demanda, armador, Str(<<"T">>), Str(<<"S">>), Num(10, 0), status, Str(<<"J">>), Str(<<"C">>), lista, placa>>

DataRows == {
    \* finished (status in mixed case with spaces around)
    DataRow(Str(<<"1","2","A">>), Str(<<"X">>), Str(<<" ","F","i","n","a","l","i","z","a","d","o"," ">>), Str(<<"a",";"," ","b">>), Str(<<"P">>)),
    \* finished, same demand number and carrier as the first, no plate
    DataRow(Str(<<"1","2","B">>), Str(<<"X">>), Str(<<"F","I","N","A","L","I","Z","A","D","O">>), Str(<<"c">>), NaN),
    \* finished, with a list the paragraph parser refuses
    DataRow(Str(<<"7">>), Str(<<"Y">>), Str(<<"f","i","n","a","l","i","z","a","d","o">>), Str(<<"<","b">>), Str(<<"Q">>)),
    \* not finished: another status, and no status
    DataRow(Str(<<"8">>), Str(<<"Y">>), Str(<<"F","i","n","a","l","i","z","a","d","o","s">>), Str(<<"d">>), Str(<<"R">>)),
    DataRow(Num(9, 0), Str(<<"Z">>), NaN, Str(<<"e">>), Str(<<"R">>)) }

\* a row of the 10-column layout in a sheet `width` columns wide: the wide
\* layout has 6 empty columns before PLACA, which is then the 16th
Widen(row, width) ==
    IF width = Len(row) THEN row
    ELSE SubSeq(row, 1, Len(row) - 1) \o [k \in 1..(width - Len(row)) |-> NaN]
         \o <<row[Len(row)]>>

Widths == {10, 16}

ONEDRIVE_LINK == [link |-> "https://tecadi-my.sharepoint.com/:x:/g/personal/...", query |-> FALSE]

\* what the two requests can answer while the link serves the workbook wb: a
\* timeout, an HTTP error, a short page, a long page that is no workbook,
\* the workbook
AppReplies(wb) == {
    Raised("Timeout"),
    Response(FALSE, Bytes(0, FALSE, <<>>)),
    Response(TRUE, Bytes(MinUsefulLength, FALSE, <<>>)),
    Response(TRUE, Bytes(MinUsefulLength + 1, FALSE, <<>>)),
    Response(TRUE, Bytes(MinUsefulLength + 1, wb.readable, wb.sheet)) }

NoRun == [kind |-> "none", shown |-> "", zip |-> <<>>, calls |-> <<>>]

AppInit ==
    /\ remote \in { [readable |-> TRUE,
                     sheet |-> <<Widen(TitleRow, w), Widen(HeaderRow, w)>>] : w \in Widths }
                  \cup { [readable |-> FALSE, sheet |-> <<>>] }
    /\ df_cache = None /\ fetch_error = None
    /\ selected_keys = {} /\ widget = None /\ run = NoRun
    /\ arg = None /\ ret = None /\ pc = "app"

\* a row is added to the sheet behind the link
RemoteEdit ==
    /\ pc = "app"
    /\ remote.readable
    /\ Len(remote.sheet) < 2 + MaxRows
    /\ \E row \in DataRows :
          remote' = [remote EXCEPT !.sheet = Append(@, Widen(row, Len(@[2])))]
    /\ UNCHANGED <<df_cache, fetch_error, selected_keys, widget, run, arg, ret, pc>>

\* st.multiselect(...) and the line that stores its value
draw_multiselect(ls, value) ==
    [crashed |-> FALSE,
     widget |-> [t |-> "multiselect", labels |-> ls,
                 value |-> IF widget # None /\ widget.labels = ls THEN value ELSE {}],
     selected |-> IF widget # None /\ widget.labels = ls THEN value ELSE {}]

\* lines 342-389 on the cache `df`: the multiselect is drawn (not when there
\* is no cache, nor when df["STATUS"] raises KeyError first) and its value
\* is stored; `value` is what the user has chosen when the widget drawn is
\* the one of the last run, and it starts empty when it is a new one
view(df, value) ==
    IF df = None THEN [crashed |-> FALSE, widget |-> None, selected |-> selected_keys]
    ELSE IF ~HasColumn(df, STATUS)
    THEN [crashed |-> TRUE, widget |-> None, selected |-> selected_keys]
    ELSE draw_multiselect(labels(df), value)

WidgetValue == IF widget = None THEN {} ELSE widget.value

\* the run of a click on "Atualizar informacoes do OneDrive"; the table
\* read from the workbook behind the link is worked out once for all replies
Atualizar ==
    /\ pc = "app"
    /\ \E workbook \in {Bytes(MinUsefulLength + 1, remote.readable, remote.sheet)} :
       \E table \in {load_excel_from_bytes(workbook)} :
       \E reply1 \in AppReplies(remote), reply2 \in AppReplies(remote) :
       \E dl \in {onedrive_direct_download(ONEDRIVE_LINK, reply1, reply2)} :
       \E loaded \in {IF dl.raised THEN None
                      ELSE IF dl.content = workbook THEN table
                      ELSE load_excel_from_bytes(dl.content)} :
       \E failed \in {dl.raised \/ loaded.t = "raise"} :
       \E v \in {view(IF failed THEN None ELSE loaded, WidgetValue)} :
          /\ df_cache' = IF failed THEN None ELSE loaded
          /\ fetch_error' = IF dl.raised THEN [t |-> "str", why |-> dl.error]
                            ELSE IF failed THEN [t |-> "str", why |-> "read_excel"]
                            ELSE None
          /\ selected_keys' = v.selected
          /\ widget' = v.widget
          /\ run' = [kind |-> "atualizar",
                     shown |-> IF v.crashed THEN "KeyError: STATUS"
                               ELSE IF failed THEN "Falha ao baixar do OneDrive"
                               ELSE "",
                     zip |-> <<>>, calls |-> <<>>]
    /\ UNCHANGED <<remote, arg, ret, pc>>

\* the run after the user changes the multiselect to the keys `chosen`
Selecionar ==
    /\ pc = "app"
    /\ widget # None
    /\ \E chosen \in SUBSET { kl[1] : kl \in widget.labels } :
       \E v \in {view(df_cache, chosen)} :
          /\ chosen # widget.value
          /\ selected_keys' = v.selected
          /\ widget' = v.widget
          /\ run' = [kind |-> "selecionar", shown |-> "", zip |-> <<>>, calls |-> <<>>]
    /\ UNCHANGED <<remote, df_cache, fetch_error, arg, ret, pc>>

\* the run of a click on "Gerar PDFs (FINALIZADO)"
Gerar ==
    /\ pc = "app"
    /\ \E v \in {view(df_cache, WidgetValue)} :
          /\ selected_keys' = v.selected
          /\ widget' = v.widget
          /\ run' = [kind |-> "gerar"] @@
                    (IF v.crashed
                     THEN [shown |-> "KeyError: STATUS", zip |-> <<>>, calls |-> <<>>]
                     ELSE IF df_cache = None
                     THEN [shown |-> "Clique em Atualizar primeiro", zip |-> <<>>,
                           calls |-> <<>>]
                     ELSE gerar(df_cache, v.selected))
    /\ UNCHANGED <<remote, df_cache, fetch_error, arg, ret, pc>>

\* a run with a header date that does not parse: st.stop() before the
\* buttons; nothing below is drawn
DataInvalida ==
    /\ pc = "app"
    /\ widget' = None
    /\ run' = [kind |-> "stop", shown |-> "Informe a data no formato dd/mm/aaaa",
               zip |-> <<>>, calls |-> <<>>]
    /\ UNCHANGED <<remote, df_cache, fetch_error, selected_keys, arg, ret, pc>>

Next == RemoteEdit \/ Atualizar \/ Selecionar \/ Gerar \/ DataInvalida

Spec == AppInit /\ [][Next]_vars

(***************************************************************************)
(* Properties of the script runs                                           *)
(***************************************************************************)
\* C1: a refresh that fails (the download fails on both strategies, or the
\* normalization raises) leaves a previously cached table as it was; only
\* the fetch error is recorded.
C1_FailedRefreshKeepsCache ==
    [][(df_cache # None /\ run'.kind = "atualizar" /\ fetch_error' # None)
          => df_cache' = df_cache]_vars

\* the records of the batch: the FINALIZADO rows of the cached table, of a
\* selected key when a selection is active
BatchRecords ==
    SelectSeq([r \in DOMAIN df_cache.rows |-> r],
              LAMBDA r : /\ Upper(PyStr(Cell(df_cache, r, STATUS))) = FINALIZADO
                         /\ selected_keys = {} \/ make_key(df_cache, r) \in selected_keys)

GeneratedZip == run.kind = "gerar" /\ run.shown = "Baixar ZIP com PDFs"

\* C2: a generated batch has exactly one archive entry per record, in the
\* records' order: the PDF of each record that rendered, an error marker for
\* each record whose rendering failed; the rows after a failure are still
\* processed.
C2_BatchIsolation ==
    GeneratedZip =>
        /\ Len(run.zip) = Len(BatchRecords)
        /\ run.calls = BatchRecords
        /\ \A k \in DOMAIN run.zip :
              /\ run.zip[k].row = BatchRecords[k]
              /\ run.zip[k].pdf = ~ParagraphRaises(
                    lista_texto(str_or_default(df_cache, BatchRecords[k], LISTA, <<>>)))

\* the first record of a batch failed to render and the one after it got
\* its PDF
C2_Witness ==
    /\ GeneratedZip /\ Len(run.zip) >= 2
    /\ ~run.zip[1].pdf /\ run.zip[2].pdf

\* C3: gerar_pdf_row is never called for a record that lacks one of the
\* fields of REQUIRED_FOR_PDF.
C3_RequiredFieldGate ==
    run.kind = "gerar" =>
        \A k \in DOMAIN run.calls : \A c \in DOMAIN REQUIRED_FOR_PDF :
            /\ HasColumn(df_cache, REQUIRED_FOR_PDF[c])
            /\ notna(Cell(df_cache, run.calls[k], REQUIRED_FOR_PDF[c]))

\* the STATUS cell of the sheet row that table row r was read from (rows are
\* only ever added to the sheet; the title and the header come first), and
\* whether it reads FINALIZADO once trimmed and upper-cased
SourceStatus(r) == remote.sheet[r + 2][6]
Eligible(r) == Upper(Strip(PyStr(SourceStatus(r)))) = FINALIZADO

\* C4 as stated: every document of a batch comes from a row whose STATUS
\* cell, trimmed and upper-cased, is FINALIZADO, and with no selection
\* active every such row of the table gets a document.
C4_StatusFilterAsStated ==
    (run.kind = "gerar" /\ df_cache # None) =>
        /\ \A k \in DOMAIN run.zip : run.zip[k].pdf => Eligible(run.zip[k].row)
        /\ selected_keys = {} =>
              \A r \in DOMAIN df_cache.rows :
                  Eligible(r) => \E k \in DOMAIN run.zip :
                                    run.zip[k].row = r /\ run.zip[k].pdf

\* C4, amended: every entry of a batch (document or error marker) comes from
\* a row whose STATUS cell, trimmed and upper-cased, is FINALIZADO; with no
\* selection active and every required column in the table, every such row
\* gets its entry: its document, or an error marker when rendering it fails.
C4_StatusFilter ==
    (run.kind = "gerar" /\ df_cache # None) =>
        /\ \A k \in DOMAIN run.zip : Eligible(run.zip[k].row)
        /\ (/\ selected_keys = {}
            /\ \A c \in DOMAIN REQUIRED_FOR_PDF : HasColumn(df_cache, REQUIRED_FOR_PDF[c]))
              => \A r \in DOMAIN df_cache.rows :
                    Eligible(r) => \E k \in DOMAIN run.zip : run.zip[k].row = r

\* a batch without selection, of a table with a row that is not finished and
\* a finished row whose status was written in mixed case between spaces
C4_Witness ==
    /\ GeneratedZip /\ selected_keys = {}
    /\ \E r \in DOMAIN df_cache.rows : ~Eligible(r)
    /\ \E k \in DOMAIN run.zip :
          /\ SourceStatus(run.zip[k].row).t = "str"
          /\ SourceStatus(run.zip[k].row).s # FINALIZADO

\* C10: with a selection active, each option stands for exactly one
\* FINALIZADO row of the cached table, and the records rendered are as many
\* as the options selected.
C10_SelectionPrecision ==
    (GeneratedZip /\ selected_keys # {}) =>
        /\ \A key \in options(df_cache) :
              Cardinality({ r \in DOMAIN df_cache.rows :
                             /\ Upper(PyStr(Cell(df_cache, r, STATUS))) = FINALIZADO
                             /\ make_key(df_cache, r) = key }) = 1
        /\ Len(run.calls) = Cardinality(selected_keys)

(***************************************************************************)
(* PDF layout. Lengths are in hundredths of a centimetre (1 cm = 100); y    *)
(* grows upwards from the bottom of the page. The canvas is the sequence   *)
(* of what was drawn.                                                      *)
(***************************************************************************)
PAGE_W == 2100
PAGE_H == 2970
MARGIN_L == 160
MARGIN_R == 160
COL_LABEL_X == MARGIN_L + 90
COL_VALUE_X == MARGIN_L + 630
STEP_Y == 95
GAP_AFTER_INFO_TITLE == 60
GAP_AFTER_FAST_TITLE == 60
SIG_DELTA_DOWN == 150
TITLE_SHIFT_LEFT == 50

Rect(sec, x, y, w, h) ==
    [sec |-> sec, op |-> "roundRect", x |-> x, y |-> y, w |-> w, h |-> h, text |-> <<>>]
String(sec, x, y, text) ==
    [sec |-> sec, op |-> "drawString", x |-> x, y |-> y, w |-> 0, h |-> 0, text |-> text]
Line(sec, x, y, w) ==
    [sec |-> sec, op |-> "line", x |-> x, y |-> y, w |-> w, h |-> 0, text |-> <<>>]
Image(sec, x, y, w, h) ==
    [sec |-> sec, op |-> "drawImage", x |-> x, y |-> y, w |-> w, h |-> h, text |-> <<>>]

\* draw_header(c, data_cabecalho, page_w, page_h); logo is whether
\* LOGO_IMAGE_PATH exists
draw_header(c, data_cabecalho, logo, page_w, page_h) ==
    LET box_w == 540
        box_h == 300
        box_x == page_w - MARGIN_R - box_w
        box_y == page_h - 200 - box_h
    IN  c \o (IF logo THEN <<Image("header", MARGIN_L, page_h - 235, 390, 125)>> ELSE <<>>)
          \o << String("header", page_w \div 2 - TITLE_SHIFT_LEFT, page_h - 270,
                       <<"Romaneio Manual">>),
                Rect("header", box_x, box_y, box_w, box_h),
                String("header", box_x + box_w \div 2, box_y + box_h - 90, <<"Romaneio">>),
                String("header", box_x + box_w - 30, box_y + box_h - 155, <<"Cod.: FM 108">>),
                String("header", box_x + box_w - 30, box_y + box_h - 210, <<"Rev.: 00">>),
                String("header", box_x + box_w - 30, box_y + 55,
                       <<"Data: ">> \o data_cabecalho) >>

RECURSIVE draw_rows(_, _, _, _)
\* the loop that draws the (label, value) pairs from y downwards, one
\* STEP_Y apart
draw_rows(c, sec, rows, y) ==
    IF rows = <<>> THEN c
    ELSE draw_rows(c \o << String(sec, COL_LABEL_X, y, rows[1][1]),
                           String(sec, COL_VALUE_X, y, rows[1][2]) >>,
                   sec, Tail(rows), y - STEP_Y)

\* a row is added to the list without the height formula being touched
info_rows_with_horario(info) ==
    << << <<"DATA:">>,           info.DATA >>,
       << <<"HORARIO:">>,        <<>> >>,
       << <<"CONTEUDO:">>,       info.CONTEUDO >>,
       << <<"CLIENTE:">>,        info.CLIENTE >>,
       << <<"TRANSPORTADORA:">>, info.TRANSPORTADORA >>,
       << <<"MOTORISTA:">>,      info.MOTORISTA >>,
       << <<"PLACA:">>,          info.PLACA >> >>

\* the rows list of draw_info_section
info_rows(info) ==
    << << <<"DATA:">>,           info.DATA >>,
       << <<"CONTEUDO:">>,       info.CONTEUDO >>,
       << <<"CLIENTE:">>,        info.CLIENTE >>,
       << <<"TRANSPORTADORA:">>, info.TRANSPORTADORA >>,
       << <<"MOTORISTA:">>,      info.MOTORISTA >>,
       << <<"PLACA:">>,          info.PLACA >> >>

\* draw_info_section(c, info, page_w, page_h): the canvas and the y returned
draw_info_section(c, info, page_w, page_h) ==
    LET title_h    == 110
        content_h  == 6 * STEP_Y
        pad_top    == 50
        pad_bottom == 60
        sec_h      == title_h + pad_top + GAP_AFTER_INFO_TITLE + content_h + pad_bottom
        top_y      == page_h - 610
        bottom_y   == top_y - sec_h
        rows       == info_rows(info)
    IN  [canvas |-> draw_rows(
                        c \o << Rect("info", MARGIN_L, bottom_y,
                                     page_w - MARGIN_L - MARGIN_R, sec_h),
                                String("info", MARGIN_L + 70, top_y - 85,
                                       <<"Informacoes:">>) >>,
                        "info", rows, top_y - title_h - GAP_AFTER_INFO_TITLE),
         y |-> bottom_y - 90]

\* draw_products_section(c, prod_info, start_y, page_w): the canvas, and
\* whether Paragraph raised on the list (nothing is drawn after that)
draw_products_section(c, prod_info, start_y, page_w) ==
    LET title_h    == 100
        fields_h   == 4 * STEP_Y
        lista_h    == 500
        pad_top    == 50
        pad_bottom == 60
        gap_fields_lista == 35
        sec_h      == title_h + pad_top + GAP_AFTER_FAST_TITLE + fields_h
                      + gap_fields_lista + lista_h + pad_bottom
        bottom_y   == start_y - sec_h
        y0         == start_y - title_h - GAP_AFTER_FAST_TITLE
        fields == << << <<"CNTR(ORIGEM):">>, prod_info.CNTR_ORIGEM >>,
                     << <<"CNTR(TECADI):">>, prod_info.CNTR_TECADI >>,
                     << <<"SKU:">>,          prod_info.SKU >>,
                     << <<"QTD:">>,          prod_info.QTD >> >>
        sig_y      == 260 - SIG_DELTA_DOWN
        upto_lista == draw_rows(
                        c \o << Rect("products", MARGIN_L, bottom_y,
                                     page_w - MARGIN_L - MARGIN_R, sec_h),
                                String("products", MARGIN_L + 70, start_y - 80,
                                       <<"FAST CIF/FOB">>) >>,
                        "products", fields, y0)
                      \o << String("products", COL_LABEL_X,
                                   y0 - 4 * STEP_Y - gap_fields_lista, <<"LISTA:">>) >>
    IN  IF ParagraphRaises(lista_texto(prod_info.LISTA))
        THEN [canvas |-> upto_lista, raised |-> TRUE]
        ELSE [canvas |-> upto_lista
                  \o << [sec |-> "products", op |-> "paragraph", x |-> COL_LABEL_X,
                         y |-> bottom_y + pad_bottom + 20,
                         w |-> page_w - MARGIN_R - COL_LABEL_X, h |-> lista_h,
                         text |-> lista_texto(prod_info.LISTA)],
                        Line("signatures", 200, sig_y, 700),
                        Line("signatures", 1100, sig_y, 700),
                        String("signatures", 550, sig_y - 45, <<"ASS: MOTORISTA">>),
                        String("signatures", 1450, sig_y - 45, <<"ASS: CONFERENTE">>) >>,
              raised |-> FALSE]

\* the info dictionary with the entries that do not come from the row
full_info(df, r, data_cabecalho) ==
    [DATA |-> data_cabecalho, CONTEUDO |-> <<"CHEIO">>,
     CLIENTE |-> <<"SPRINGER CARRIER LTDA (MIDEA).">>] @@ info_of(df, r)

\* ---- gerar_pdf_row, one drawing call at a time --------------------------
LayoutTables ==
    { load_excel_from_bytes(Bytes(MinUsefulLength + 1, TRUE,
            <<Widen(TitleRow, w), Widen(HeaderRow, w), Widen(row, w)>>)) :
        w \in Widths, row \in DataRows }

LayoutInit ==
    /\ AppOff /\ pc = "start"
    /\ ret = [canvas |-> <<>>, next_y |-> 0]
    /\ \E df \in LayoutTables, logo \in BOOLEAN,
          d \in { <<"0","2","/","1","1","/","2","0","2","6">>,
                  <<"3","1","/","1","2","/","1","9","9","9">> } :
          arg = [df |-> df, r |-> 1, data_cabecalho |-> d, logo |-> logo]

DrawHeader ==
    /\ pc = "start"
    /\ ret' = [ret EXCEPT !.canvas =
                  draw_header(@, arg.data_cabecalho, arg.logo, PAGE_W, PAGE_H)]
    /\ pc' = "header"
    /\ UNCHANGED <<arg, AppVars>>

DrawInfoSection ==
    /\ pc = "header"
    /\ \E drawn \in {draw_info_section(ret.canvas,
                        full_info(arg.df, arg.r, arg.data_cabecalho), PAGE_W, PAGE_H)} :
          ret' = [canvas |-> drawn.canvas, next_y |-> drawn.y]
    /\ pc' = "info"
    /\ UNCHANGED <<arg, AppVars>>

DrawProductsSection ==
    /\ pc = "info"
    /\ \E drawn \in {draw_products_section(ret.canvas, prod_of(arg.df, arg.r),
                                           ret.next_y, PAGE_W)} :
          /\ ret' = [ret EXCEPT !.canvas = drawn.canvas]
          /\ pc' = IF drawn.raised THEN "raised" ELSE "products"
    /\ UNCHANGED <<arg, AppVars>>

\* c.showPage(); c.save(); the bytes are returned
Save ==
    /\ pc = "products"
    /\ pc' = "saved"
    /\ UNCHANGED <<arg, ret, AppVars>>

LayoutNext == DrawHeader \/ DrawInfoSection \/ DrawProductsSection \/ Save

SpecLayout == LayoutInit /\ [][LayoutNext]_vars

\* what was drawn of one section
Drawn(sec, op) == SelectSeq(ret.canvas, LAMBDA d : d.sec = sec /\ d.op = op)

\* C9: the info section's box is title_height (1.1 cm) + top_padding (0.5)
\* + title_gap (0.6) + rows x row_step (0.95) + bottom_padding (0.6) high,
\* rows being the 6 rows actually drawn; the product section's box starts
\* exactly 0.9 cm below the bottom of the info box, which is the value
\* draw_info_section returned.
C9_SectionChaining ==
    pc \in {"info", "products", "raised", "saved"} =>
        LET box    == Drawn("info", "roundRect")
            labels_drawn == SelectSeq(Drawn("info", "drawString"),
                                      LAMBDA d : d.x = COL_LABEL_X)
        IN  /\ Len(box) = 1
            /\ Len(labels_drawn) = 6
            /\ box[1].h = 110 + 50 + 60 + Len(labels_drawn) * 95 + 60
            /\ ret.next_y = box[1].y - 90
            /\ pc # "info" =>
                  /\ Len(Drawn("products", "roundRect")) = 1
                  /\ Drawn("products", "roundRect")[1].y
                       + Drawn("products", "roundRect")[1].h = box[1].y - 90

\* a page was drawn to the end and saved
C9_Witness ==
    /\ pc = "saved"
    /\ Len(Drawn("products", "roundRect")) = 1
    /\ Len(Drawn("info", "drawString")) = 13

====
